---- MODULE Spec2Model ----
(***************************************************************************)
(* GTIRB: the bounded byte image (ImageByteMap) over the address-indexed   *)
(* byte store (ByteMap), and the protobuf round trip of ImageByteMap and   *)
(* DataObject.                                                             *)
(*                                                                         *)
(* Objects are records whose fields carry the names of the C++ members.    *)
(* Every member function is an operator from the object (and its           *)
(* arguments) to the object after the call and what the call returned or   *)
(* threw; the actions apply these operators to inputs drawn from small     *)
(* sets.  Addr is a 64-bit unsigned value in the code; here its width is   *)
(* scaled down to AddrMod values and its arithmetic is kept modular.       *)
(***************************************************************************)
EXTENDS Integers, Sequences, FiniteSets, TLC

VARIABLES
  ibm,        \* the ImageByteMap under test
  call,       \* the last member function called, with its arguments
  result,     \* what that call returned or threw
  pc,         \* position of the driving scenario
  hist,       \* calls made so far by the two-writes scenario
  Message,    \* proto::ImageByteMap produced by toProtobuf
  decoded,    \* the ImageByteMap that received fromProtobuf
  dobj,       \* the DataObject under test
  doMessage,  \* proto::DataObject produced by toProtobuf
  doDecoded   \* the DataObject that received fromProtobuf

vars == <<ibm, call, result, pc, hist, Message, decoded, dobj, doMessage, doDecoded>>

----------------------------------------------------------------------------
(* Bounds *)

AddrMod == 3     \* number of Addr values (2^64 in the code)
MaxLen == 2      \* longest span written or read
MaxByte == 1     \* largest byte value (255 in the code)
UUIDLen == 2     \* bytes in a UUID (16 in the code)

Addr == 0 .. (AddrMod - 1)
Byte == 0 .. MaxByte
NoByte == -1

RECURSIVE SeqsUpTo(_, _)
SeqsUpTo(S, n) ==
  IF n = 0 THEN {<<>>}
  ELSE LET R == SeqsUpTo(S, n - 1)
       IN  R \cup {Append(s, x) : s \in {r \in R : Len(r) = n - 1}, x \in S}

Spans == SeqsUpTo(Byte, MaxLen)
Lengths == 0 .. MaxLen

----------------------------------------------------------------------------
(* Addr arithmetic: unsigned, fixed width *)

AddrAdd(A, Offset) == (A + Offset) % AddrMod
AddrSub(A, Offset) == (A + AddrMod * (1 + Offset) - Offset) % AddrMod

----------------------------------------------------------------------------
(* ByteMap, the byte storage engine: a sparse map from Addr to byte *)

EmptyByteMap == [a \in Addr |-> NoByte]

\* the run of Len(Bytes) bytes starting at A replaces what was stored there
ByteMap_setData(BM, A, Bytes) ==
  [a \in Addr |->
     LET off == (a + AddrMod - A) % AddrMod
     IN  IF off < Len(Bytes) THEN Bytes[off + 1] ELSE BM[a]]

ByteMap_getData(BM, A, Bytes) ==
  IF \A i \in 1 .. Bytes : BM[AddrAdd(A, i - 1)] # NoByte
  THEN [outcome |-> "ok", ret |-> [i \in 1 .. Bytes |-> BM[AddrAdd(A, i - 1)]]]
  ELSE [outcome |-> "range_error", ret |-> <<>>]

----------------------------------------------------------------------------
(* ImageByteMap *)

NativeOrder == "little"
ByteOrders == {"big", "little"}

ImageByteMap_new(u) ==
  [uuid |-> u,
   ByteMap |-> EmptyByteMap,
   FileName |-> "",
   EaMinMax |-> <<0, 0>>,
   BaseAddress |-> 0,
   EntryPointAddress |-> 0,
   RebaseDelta |-> 0,
   IsRelocated |-> FALSE,
   ByteOrder |-> NativeOrder]

setFileName(self, X) == [self EXCEPT !.FileName = X]
setBaseAddress(self, X) == [self EXCEPT !.BaseAddress = X]
setEntryPointAddress(self, X) == [self EXCEPT !.EntryPointAddress = X]
\* setRebaseDelta that also clears the relocated flag
setRebaseDelta_ClearsRelocated(self, X) ==
  [self EXCEPT !.RebaseDelta = X, !.IsRelocated = FALSE]
setRebaseDelta(self, X) == [self EXCEPT !.RebaseDelta = X]
setIsRelocated(self) == [self EXCEPT !.IsRelocated = TRUE]
setByteOrder(self, Value) == [self EXCEPT !.ByteOrder = Value]

\* setAddrMinMax that keeps the stored range when the pair is invalid
setAddrMinMax_KeepOld(self, X) ==
  IF X[1] <= X[2]
  THEN [self |-> [self EXCEPT !.EaMinMax = X], ret |-> TRUE]
  ELSE [self |-> self, ret |-> FALSE]

setAddrMinMax(self, X) ==
  IF X[1] <= X[2]
  THEN [self |-> [self EXCEPT !.EaMinMax = X], ret |-> TRUE]
  ELSE [self |-> [self EXCEPT !.EaMinMax = <<0, 0>>], ret |-> FALSE]

getAddrMinMax(self) == self.EaMinMax

\* setData that keeps a byte already stored instead of overwriting it
setData_KeepOld(self, Ea, Data) ==
  IF Ea >= self.EaMinMax[1]
     /\ AddrSub(AddrAdd(Ea, Len(Data)), 1) <= self.EaMinMax[2]
  THEN [self |-> [self EXCEPT !.ByteMap =
                    [a \in Addr |-> IF @[a] # NoByte THEN @[a]
                                    ELSE ByteMap_setData(@, Ea, Data)[a]]],
        outcome |-> "ok", engine |-> TRUE]
  ELSE [self |-> self, outcome |-> "out_of_range", engine |-> FALSE]

\* setData(Addr, gsl::span<const std::byte>)
setData(self, Ea, Data) ==
  IF Ea >= self.EaMinMax[1]
     /\ AddrSub(AddrAdd(Ea, Len(Data)), 1) <= self.EaMinMax[2]
  THEN [self |-> [self EXCEPT !.ByteMap = ByteMap_setData(@, Ea, Data)],
        outcome |-> "ok", engine |-> TRUE]
  ELSE [self |-> self, outcome |-> "out_of_range", engine |-> FALSE]

\* FillFrom with the loop bound off by one (I <= Bytes)
RECURSIVE FillFrom_OneTooMany(_, _, _, _, _)
FillFrom_OneTooMany(BM, Ea, Bytes, Value, I) ==
  IF I <= Bytes
  THEN FillFrom_OneTooMany(ByteMap_setData(BM, AddrAdd(Ea, I), <<Value>>),
                           Ea, Bytes, Value, I + 1)
  ELSE BM

\* the loop of setData(Addr, size_t, std::byte), from iteration I on
RECURSIVE FillFrom(_, _, _, _, _)
FillFrom(BM, Ea, Bytes, Value, I) ==
  IF I < Bytes
  THEN FillFrom(ByteMap_setData(BM, AddrAdd(Ea, I), <<Value>>), Ea, Bytes, Value, I + 1)
  ELSE BM

\* setData(Addr, size_t, std::byte)
setDataValue(self, Ea, Bytes, Value) ==
  [self |-> [self EXCEPT !.ByteMap = FillFrom(@, Ea, Bytes, Value, 0)],
   outcome |-> "ok", engine |-> (Bytes > 0)]

\* getData that reads the ByteMap one address too high
getData_OffByOne(self, X, Bytes) ==
  IF X >= self.EaMinMax[1]
     /\ AddrSub(AddrAdd(X, Bytes), 1) <= self.EaMinMax[2]
  THEN LET r == ByteMap_getData(self.ByteMap, AddrAdd(X, 1), Bytes)
       IN  [outcome |-> r.outcome, ret |-> r.ret, engine |-> TRUE]
  ELSE [outcome |-> "out_of_range", ret |-> <<>>, engine |-> FALSE]

getData(self, X, Bytes) ==
  IF X >= self.EaMinMax[1]
     /\ AddrSub(AddrAdd(X, Bytes), 1) <= self.EaMinMax[2]
  THEN LET r == ByteMap_getData(self.ByteMap, X, Bytes)
       IN  [outcome |-> r.outcome, ret |-> r.ret, engine |-> TRUE]
  ELSE [outcome |-> "out_of_range", ret |-> <<>>, engine |-> FALSE]

----------------------------------------------------------------------------
(* The image driven by arbitrary calls *)

TheUUID == [i \in 0 .. (UUIDLen - 1) |-> 0]
NoCall == [op |-> "none"]
NoResult == [outcome |-> "none"]
NoMessage == [none |-> TRUE]

Idle ==
  /\ pc = "idle"
  /\ hist = <<>>
  /\ Message = NoMessage
  /\ decoded = NoMessage
  /\ dobj = NoMessage
  /\ doMessage = NoMessage
  /\ doDecoded = NoMessage

Init ==
  /\ ibm = ImageByteMap_new(TheUUID)
  /\ call = NoCall
  /\ result = NoResult
  /\ Idle

Rest == <<pc, hist, Message, decoded, dobj, doMessage, doDecoded>>

Call_setAddrMinMax ==
  \E X \in Addr \X Addr :
    LET r == setAddrMinMax(ibm, X)
    IN  /\ ibm' = r.self
        /\ call' = [op |-> "setAddrMinMax", X |-> X]
        /\ result' = [outcome |-> "ok", ret |-> r.ret]
        /\ UNCHANGED Rest

Call_setData ==
  \E Ea \in Addr, Data \in Spans :
    LET r == setData(ibm, Ea, Data)
    IN  /\ ibm' = r.self
        /\ call' = [op |-> "setData", Ea |-> Ea, Data |-> Data]
        /\ result' = [outcome |-> r.outcome, engine |-> r.engine]
        /\ UNCHANGED Rest

Call_setDataValue ==
  \E Ea \in Addr, Bytes \in Lengths, Value \in Byte :
    LET r == setDataValue(ibm, Ea, Bytes, Value)
    IN  /\ ibm' = r.self
        /\ call' = [op |-> "setDataValue", Ea |-> Ea, Bytes |-> Bytes, Value |-> Value]
        /\ result' = [outcome |-> r.outcome, engine |-> r.engine]
        /\ UNCHANGED Rest

Call_getData ==
  \E X \in Addr, Bytes \in Lengths :
    /\ ibm' = ibm
    /\ call' = [op |-> "getData", X |-> X, Bytes |-> Bytes]
    /\ result' = getData(ibm, X, Bytes)
    /\ UNCHANGED Rest

Next ==
  \/ Call_setAddrMinMax
  \/ Call_setData
  \/ Call_setDataValue
  \/ Call_getData

Spec == Init /\ [][Next]_vars

----------------------------------------------------------------------------
(* Ranges as the claims speak of them: plain integers, no wraparound *)

\* every byte of [addr, addr+len-1] lies in [min, max]
Inside(mm, addr, len) == addr >= mm[1] /\ addr + len - 1 <= mm[2]

\* some byte of [addr, addr+len-1] lies outside [min, max]
Outside(mm, addr, len) == len >= 1 /\ (addr < mm[1] \/ addr + len - 1 > mm[2])

\* the last byte of [addr, addr+len-1] lies beyond the largest Addr
Wraps(addr, len) == len >= 1 /\ addr + len - 1 > AddrMod - 1

CallAddr(c) == IF c.op = "getData" THEN c.X ELSE c.Ea
CallLen(c) == IF c.op = "setData" THEN Len(c.Data) ELSE c.Bytes

RECURSIVE Copies(_, _)
Copies(n, v) == IF n = 0 THEN <<>> ELSE Append(Copies(n - 1, v), v)

----------------------------------------------------------------------------
(* Claims about single calls *)

\* C1: a span write setData(addr, bytes) with some byte of [addr, addr+len-1]
\* outside [min, max] throws out_of_range, never reaches the ByteMap and
\* leaves the byte store and every attribute as they were.
C1_SpanWriteOutsideRejected ==
  [][(call'.op = "setData"
      /\ Outside(ibm.EaMinMax, call'.Ea, Len(call'.Data)))
     => (result'.outcome = "out_of_range" /\ ~result'.engine /\ ibm' = ibm)]_vars

\* C2: the bulk fill setData(addr, length, value) succeeds when
\* [addr, addr+length-1] lies inside [min, max], and throws out_of_range
\* without changing the byte store when some byte of it lies outside.
C2_FillChecksRange ==
  [][(call'.op = "setDataValue")
     => /\ Inside(ibm.EaMinMax, call'.Ea, call'.Bytes)
             => result'.outcome = "ok"
        /\ Outside(ibm.EaMinMax, call'.Ea, call'.Bytes)
             => (result'.outcome = "out_of_range" /\ ibm'.ByteMap = ibm.ByteMap)]_vars

\* C3: a read getData(addr, length) with some byte of [addr, addr+length-1]
\* outside [min, max] throws out_of_range, returns no data, and the ByteMap
\* is neither consulted nor changed.
C3_ReadOutsideRejected ==
  [][(call'.op = "getData"
      /\ Outside(ibm.EaMinMax, call'.X, call'.Bytes))
     => (result'.outcome = "out_of_range" /\ result'.ret = <<>>
         /\ ~result'.engine /\ ibm' = ibm)]_vars

\* C9: a span write or a read whose last byte addr+length-1 lies beyond the
\* largest Addr throws out_of_range and leaves the byte store unchanged,
\* whatever [min, max] is.
C9_NoAccessThroughWraparound ==
  [][(call'.op \in {"setData", "getData"}
      /\ Wraps(CallAddr(call'), CallLen(call')))
     => (result'.outcome = "out_of_range" /\ ibm'.ByteMap = ibm.ByteMap)]_vars

\* C11: whatever setAddrMinMax, span write and bulk fill calls were made,
\* every address that holds a byte in the byte store lies inside the
\* current [min, max].
C11_StoredBytesInsideRange ==
  \A a \in Addr : ibm.ByteMap[a] # NoByte => Inside(ibm.EaMinMax, a, 1)

----------------------------------------------------------------------------
(* A range, two writes and a read, every call kept in hist; a write that
   throws ends the run *)

InitSeq ==
  /\ ibm = ImageByteMap_new(TheUUID)
  /\ call = NoCall
  /\ result = NoResult
  /\ pc = "range"
  /\ hist = <<>>
  /\ Message = NoMessage
  /\ decoded = NoMessage
  /\ dobj = NoMessage
  /\ doMessage = NoMessage
  /\ doDecoded = NoMessage

Others == <<Message, decoded, dobj, doMessage, doDecoded>>

Seq_setAddrMinMax ==
  /\ pc = "range"
  /\ \E X \in Addr \X Addr :
       LET r == setAddrMinMax(ibm, X)
       IN  /\ ibm' = r.self
           /\ call' = [op |-> "setAddrMinMax", X |-> X]
           /\ result' = [outcome |-> "ok", ret |-> r.ret]
  /\ hist' = Append(hist, [call |-> call', result |-> result'])
  /\ pc' = "w1"
  /\ UNCHANGED Others

Seq_setData(at, then) ==
  /\ pc = at
  /\ \E Ea \in Addr, Data \in Spans :
       LET r == setData(ibm, Ea, Data)
       IN  /\ ibm' = r.self
           /\ call' = [op |-> "setData", Ea |-> Ea, Data |-> Data]
           /\ result' = [outcome |-> r.outcome, engine |-> r.engine]
           /\ pc' = IF r.outcome = "ok" THEN then ELSE "thrown"
  /\ hist' = Append(hist, [call |-> call', result |-> result'])
  /\ UNCHANGED Others

Seq_setDataValue(at, then) ==
  /\ pc = at
  /\ \E Ea \in Addr, Bytes \in Lengths, Value \in Byte :
       LET r == setDataValue(ibm, Ea, Bytes, Value)
       IN  /\ ibm' = r.self
           /\ call' = [op |-> "setDataValue", Ea |-> Ea, Bytes |-> Bytes, Value |-> Value]
           /\ result' = [outcome |-> r.outcome, engine |-> r.engine]
           /\ pc' = IF r.outcome = "ok" THEN then ELSE "thrown"
  /\ hist' = Append(hist, [call |-> call', result |-> result'])
  /\ UNCHANGED Others

Seq_getData ==
  /\ pc = "read"
  /\ \E X \in Addr, Bytes \in 1 .. MaxLen :
       /\ ibm' = ibm
       /\ call' = [op |-> "getData", X |-> X, Bytes |-> Bytes]
       /\ result' = getData(ibm, X, Bytes)
  /\ hist' = Append(hist, [call |-> call', result |-> result'])
  /\ pc' = "done"
  /\ UNCHANGED Others

NextSeq ==
  \/ Seq_setAddrMinMax
  \/ Seq_setData("w1", "w2")
  \/ Seq_setDataValue("w1", "w2")
  \/ Seq_setData("w2", "read")
  \/ Seq_setDataValue("w2", "read")
  \/ Seq_getData

SpecSeq == InitSeq /\ [][NextSeq]_vars

IsWrite(c) == c.op \in {"setData", "setDataValue"}
InRangeWrite(c) == IsWrite(c) /\ CallLen(c) >= 1 /\ Inside(ibm.EaMinMax, c.Ea, CallLen(c))
Covers(c, A) == CallAddr(c) <= A /\ A < CallAddr(c) + CallLen(c)
ValueAt(c, A) == IF c.op = "setData" THEN c.Data[A - c.Ea + 1] ELSE c.Value

\* C4: getData(addr, len(bytes)) called right after a successful span write
\* setData(addr, bytes) of a non-empty bytes inside [min, max] returns
\* exactly bytes, whatever was written before.
C4_ReadAfterWriteReturnsBytes ==
  \A i \in 1 .. (Len(hist) - 1) :
    LET W == hist[i]
        R == hist[i + 1]
    IN  (/\ W.call.op = "setData"
         /\ InRangeWrite(W.call)
         /\ R.call.op = "getData"
         /\ R.call.X = W.call.Ea
         /\ R.call.Bytes = Len(W.call.Data))
        => (/\ W.result.outcome = "ok"
            /\ R.result.outcome = "ok"
            /\ R.result.ret = W.call.Data)

\* a two-byte span write over bytes that an earlier write had set to
\* other values, read back at once
C4_Witness ==
  /\ Len(hist) = 4
  /\ IsWrite(hist[2].call)
  /\ hist[3].call.op = "setData"
  /\ Len(hist[3].call.Data) = 2
  /\ InRangeWrite(hist[3].call)
  /\ \A A \in Addr : Covers(hist[3].call, A)
        => (Covers(hist[2].call, A)
            /\ ValueAt(hist[2].call, A) # ValueAt(hist[3].call, A))
  /\ hist[4].call.op = "getData"
  /\ hist[4].call.X = hist[3].call.Ea
  /\ hist[4].call.Bytes = 2
  /\ hist[4].result.ret = hist[3].call.Data

\* C5: after two in-range writes W1 then W2 (span writes or bulk fills), a
\* read returns at every address W2 covers the value W2 wrote there and at
\* every address only W1 covers the value W1 wrote there; a non-empty read
\* inside [min, max] of addresses the two writes cover succeeds.
C5_LastWriterWins ==
  (Len(hist) = 4 /\ InRangeWrite(hist[2].call) /\ InRangeWrite(hist[3].call))
  => LET W1 == hist[2].call
         W2 == hist[3].call
         R == hist[4]
     IN  /\ (/\ R.call.Bytes >= 1
             /\ Inside(ibm.EaMinMax, R.call.X, R.call.Bytes)
             /\ \A A \in Addr : Covers(R.call, A) => (Covers(W1, A) \/ Covers(W2, A)))
            => R.result.outcome = "ok"
         /\ R.result.outcome = "ok"
            => \A A \in Addr :
                 Covers(R.call, A)
                 => /\ Covers(W2, A)
                       => R.result.ret[A - R.call.X + 1] = ValueAt(W2, A)
                    /\ (Covers(W1, A) /\ ~Covers(W2, A))
                       => R.result.ret[A - R.call.X + 1] = ValueAt(W1, A)

\* a span write and a bulk fill that overlap at one address with different
\* values, then a read over that address and one that only W1 covers
C5_Witness ==
  /\ Len(hist) = 4
  /\ InRangeWrite(hist[2].call)
  /\ InRangeWrite(hist[3].call)
  /\ hist[2].call.op # hist[3].call.op
  /\ hist[4].result.outcome = "ok"
  /\ \E A, B \in Addr :
       /\ Covers(hist[2].call, A) /\ Covers(hist[3].call, A)
       /\ ValueAt(hist[2].call, A) # ValueAt(hist[3].call, A)
       /\ Covers(hist[2].call, B) /\ ~Covers(hist[3].call, B)
       /\ Covers(hist[4].call, A) /\ Covers(hist[4].call, B)
       /\ hist[4].result.ret[A - hist[4].call.X + 1] = ValueAt(hist[3].call, A)
       /\ hist[4].result.ret[B - hist[4].call.X + 1] = ValueAt(hist[2].call, B)

\* C10: an in-range bulk fill setData(addr, length, value) leaves the byte
\* store that the span write of length copies of value at addr leaves: value
\* at every address of [addr, addr+length), the old content everywhere else.
C10_FillEqualsSpanOfCopies ==
  [][(call'.op = "setDataValue"
      /\ Inside(ibm.EaMinMax, call'.Ea, call'.Bytes))
     => /\ result'.outcome = "ok"
        /\ ibm' = setData(ibm, call'.Ea, Copies(call'.Bytes, call'.Value)).self
        /\ \A a \in Addr :
              ibm'.ByteMap[a] =
                IF call'.Ea <= a /\ a < call'.Ea + call'.Bytes
                THEN call'.Value ELSE ibm.ByteMap[a]]_vars

\* an in-range fill of at least two bytes has just run over a range that
\* leaves some address of the image outside it
C10_Witness ==
  /\ call.op = "setDataValue"
  /\ call.Bytes >= 2
  /\ Inside(ibm.EaMinMax, call.Ea, call.Bytes)
  /\ result.outcome = "ok"
  /\ \A a \in Addr : (call.Ea <= a /\ a < call.Ea + call.Bytes) => ibm.ByteMap[a] = call.Value
  /\ \E a \in Addr : a >= call.Ea + call.Bytes /\ ibm.ByteMap[a] \notin {NoByte, call.Value}

----------------------------------------------------------------------------
(* Serialization *)

UUIDs == [0 .. (UUIDLen - 1) -> Byte]

\* the UUID's bytes copied into the message's byte string
nodeUUIDToBytes(u) == [i \in 1 .. UUIDLen |-> u[i - 1]]
\* the message's byte string copied into the UUID
uuidFromBytes(Bytes) == [i \in 0 .. (UUIDLen - 1) |-> Bytes[i + 1]]

\* static_cast<uint64_t>(Addr) and Addr(uint64_t)
U64(A) == A % AddrMod
AddrOf(V) == V % AddrMod

\* the ByteMap message: one region (address, data) per maximal run of bytes
RunStarts(BM) == {a \in Addr : BM[a] # NoByte /\ (a = 0 \/ BM[a - 1] = NoByte)}
RunEnd(BM, a) ==
  CHOOSE b \in a .. (AddrMod - 1) :
    /\ \A c \in a .. b : BM[c] # NoByte
    /\ (b = AddrMod - 1 \/ BM[b + 1] = NoByte)
ByteMap_toProtobuf(BM) ==
  {[address |-> U64(a), data |-> [i \in 1 .. (RunEnd(BM, a) - a + 1) |-> BM[a + i - 1]]]
     : a \in RunStarts(BM)}
ByteMap_fromProtobuf(Regions) ==
  [a \in Addr |->
     IF \E R \in Regions : R.address <= a /\ a < R.address + Len(R.data)
     THEN LET R == CHOOSE R \in Regions : R.address <= a /\ a < R.address + Len(R.data)
          IN  R.data[a - R.address + 1]
     ELSE NoByte]

ImageByteMap_toProtobuf(self) ==
  [uuid |-> nodeUUIDToBytes(self.uuid),
   byte_map |-> ByteMap_toProtobuf(self.ByteMap),
   file_name |-> self.FileName,
   addr_min |-> U64(self.EaMinMax[1]),
   addr_max |-> U64(self.EaMinMax[2]),
   base_address |-> U64(self.BaseAddress),
   entry_point_address |-> U64(self.EntryPointAddress),
   rebase_delta |-> self.RebaseDelta,
   is_relocated |-> self.IsRelocated]

ImageByteMap_fromProtobuf(self, M) ==
  [self EXCEPT
     !.uuid = uuidFromBytes(M.uuid),
     !.ByteMap = ByteMap_fromProtobuf(M.byte_map),
     !.FileName = M.file_name,
     !.EaMinMax = <<AddrOf(M.addr_min), AddrOf(M.addr_max)>>,
     !.BaseAddress = AddrOf(M.base_address),
     !.EntryPointAddress = AddrOf(M.entry_point_address),
     !.RebaseDelta = M.rebase_delta,
     !.IsRelocated = M.is_relocated]

----------------------------------------------------------------------------
(* An image is built by setters, writes and decoded messages, then encoded,
   and the message decoded into a newly constructed image *)

FileNames == {"", "a.out"}
AddrSamples == {0, AddrMod - 1}
RebaseDeltas == {0, -1}
OneByteSpans == {<<b>> : b \in Byte}
\* UUIDs a newly constructed image may have drawn
FreshUUIDs == {[i \in 0 .. (UUIDLen - 1) |-> b] : b \in Byte}

\* messages as a peer may send them: any address pair, either flag
AnyMessages ==
  [uuid : {nodeUUIDToBytes(TheUUID)},
   byte_map : {{}},
   file_name : {""},
   addr_min : Addr,
   addr_max : Addr,
   base_address : {0},
   entry_point_address : {0},
   rebase_delta : {0},
   is_relocated : BOOLEAN]

InitProto ==
  /\ ibm = ImageByteMap_new(TheUUID)
  /\ call = NoCall
  /\ result = NoResult
  /\ pc = "build"
  /\ hist = <<>>
  /\ Message = NoMessage
  /\ decoded = NoMessage
  /\ dobj = NoMessage
  /\ doMessage = NoMessage
  /\ doDecoded = NoMessage

Built == <<call, result, pc, hist, Message, decoded, dobj, doMessage, doDecoded>>

Build_setFileName ==
  pc = "build" /\ \E X \in FileNames : ibm' = setFileName(ibm, X) /\ UNCHANGED Built
Build_setBaseAddress ==
  pc = "build" /\ \E X \in AddrSamples : ibm' = setBaseAddress(ibm, X) /\ UNCHANGED Built
Build_setEntryPointAddress ==
  pc = "build" /\ \E X \in AddrSamples : ibm' = setEntryPointAddress(ibm, X) /\ UNCHANGED Built
Build_setAddrMinMax ==
  pc = "build" /\ \E X \in Addr \X Addr : ibm' = setAddrMinMax(ibm, X).self /\ UNCHANGED Built
Build_setRebaseDelta ==
  pc = "build" /\ \E X \in RebaseDeltas : ibm' = setRebaseDelta(ibm, X) /\ UNCHANGED Built
Build_setIsRelocated ==
  pc = "build" /\ ibm' = setIsRelocated(ibm) /\ UNCHANGED Built
Build_setByteOrder ==
  pc = "build" /\ \E Value \in ByteOrders : ibm' = setByteOrder(ibm, Value) /\ UNCHANGED Built
Build_setData ==
  pc = "build" /\ \E Ea \in Addr, Data \in OneByteSpans :
                    ibm' = setData(ibm, Ea, Data).self /\ UNCHANGED Built
Build_fromProtobuf ==
  pc = "build" /\ \E M \in AnyMessages :
                    ibm' = ImageByteMap_fromProtobuf(ibm, M) /\ UNCHANGED Built

Encode ==
  /\ pc = "build"
  /\ Message' = ImageByteMap_toProtobuf(ibm)
  /\ pc' = "encoded"
  /\ UNCHANGED <<ibm, call, result, hist, decoded, dobj, doMessage, doDecoded>>

Decode ==
  /\ pc = "encoded"
  /\ \E u \in FreshUUIDs :
       /\ call' = [op |-> "fromProtobuf", target |-> ImageByteMap_new(u)]
       /\ decoded' = ImageByteMap_fromProtobuf(ImageByteMap_new(u), Message)
  /\ pc' = "decoded"
  /\ UNCHANGED <<ibm, result, hist, Message, dobj, doMessage, doDecoded>>

NextProto ==
  \/ Build_setFileName
  \/ Build_setBaseAddress
  \/ Build_setEntryPointAddress
  \/ Build_setAddrMinMax
  \/ Build_setRebaseDelta
  \/ Build_setIsRelocated
  \/ Build_setByteOrder
  \/ Build_setData
  \/ Build_fromProtobuf
  \/ Encode
  \/ Decode

SpecProto == InitProto /\ [][NextProto]_vars

\* C6: the image decoded from the message of x.toProtobuf has the UUID of x
\* and the value of every attribute of x: file name, base address,
\* entry-point address, address range, rebase delta, relocated flag, byte
\* order and byte-store contents.
C6_ImageRoundTrip ==
  pc = "decoded"
  => /\ decoded.uuid = ibm.uuid
     /\ decoded.FileName = ibm.FileName
     /\ decoded.BaseAddress = ibm.BaseAddress
     /\ decoded.EntryPointAddress = ibm.EntryPointAddress
     /\ decoded.EaMinMax = ibm.EaMinMax
     /\ decoded.RebaseDelta = ibm.RebaseDelta
     /\ decoded.IsRelocated = ibm.IsRelocated
     /\ decoded.ByteOrder = ibm.ByteOrder
     /\ decoded.ByteMap = ibm.ByteMap

\* C8: whatever setAddrMinMax, setData, attribute setters and fromProtobuf
\* calls were made, the stored address range has min <= max.
C8_MinAtMostMax ==
  /\ ibm.EaMinMax[1] <= ibm.EaMinMax[2]
  /\ pc = "decoded" => decoded.EaMinMax[1] <= decoded.EaMinMax[2]

----------------------------------------------------------------------------
(* An image is loaded from a message, then two member functions are called
   on it, every call kept in hist *)

LoadStores == {EmptyByteMap, [a \in Addr |-> MaxByte]}

LoadMessages ==
  [uuid : {nodeUUIDToBytes(TheUUID)},
   byte_map : {ByteMap_toProtobuf(BM) : BM \in LoadStores},
   file_name : FileNames,
   addr_min : Addr,
   addr_max : Addr,
   base_address : {AddrMod - 1},
   entry_point_address : {1},
   rebase_delta : {-1},
   is_relocated : BOOLEAN]

InitTwo ==
  /\ ibm = ImageByteMap_new(TheUUID)
  /\ call = NoCall
  /\ result = NoResult
  /\ pc = "load"
  /\ hist = <<>>
  /\ Message = NoMessage
  /\ decoded = NoMessage
  /\ dobj = NoMessage
  /\ doMessage = NoMessage
  /\ doDecoded = NoMessage

Two_fromProtobuf ==
  /\ pc = "load"
  /\ \E M \in LoadMessages :
       /\ Message' = M
       /\ ibm' = ImageByteMap_fromProtobuf(ibm, M)
  /\ call' = [op |-> "fromProtobuf"]
  /\ result' = [outcome |-> "ok"]
  /\ pc' = "call1"
  /\ UNCHANGED <<hist, decoded, dobj, doMessage, doDecoded>>

\* the call c was made and returned or threw r
Recorded(c, r) ==
  /\ call' = c
  /\ result' = r
  /\ hist' = Append(hist, [call |-> c, result |-> r])
  /\ pc' = IF pc = "call1" THEN "call2" ELSE "done"
  /\ UNCHANGED <<Message, decoded, dobj, doMessage, doDecoded>>

Ok == [outcome |-> "ok"]

Two_setFileName ==
  /\ pc \in {"call1", "call2"}
  /\ \E X \in FileNames :
       /\ ibm' = setFileName(ibm, X)
       /\ Recorded([op |-> "setFileName", X |-> X], Ok)

Two_setBaseAddress ==
  /\ pc \in {"call1", "call2"}
  /\ \E X \in AddrSamples :
       /\ ibm' = setBaseAddress(ibm, X)
       /\ Recorded([op |-> "setBaseAddress", X |-> X], Ok)

Two_setEntryPointAddress ==
  /\ pc \in {"call1", "call2"}
  /\ \E X \in AddrSamples :
       /\ ibm' = setEntryPointAddress(ibm, X)
       /\ Recorded([op |-> "setEntryPointAddress", X |-> X], Ok)

Two_setAddrMinMax ==
  /\ pc \in {"call1", "call2"}
  /\ \E X \in Addr \X Addr :
       LET r == setAddrMinMax(ibm, X)
       IN  /\ ibm' = r.self
           /\ Recorded([op |-> "setAddrMinMax", X |-> X],
                       [outcome |-> "ok", ret |-> r.ret])

Two_getAddrMinMax ==
  /\ pc \in {"call1", "call2"}
  /\ ibm' = ibm
  /\ Recorded([op |-> "getAddrMinMax"], [outcome |-> "ok", ret |-> getAddrMinMax(ibm)])

Two_setRebaseDelta ==
  /\ pc \in {"call1", "call2"}
  /\ \E X \in RebaseDeltas :
       /\ ibm' = setRebaseDelta(ibm, X)
       /\ Recorded([op |-> "setRebaseDelta", X |-> X], Ok)

Two_setIsRelocated ==
  /\ pc \in {"call1", "call2"}
  /\ ibm' = setIsRelocated(ibm)
  /\ Recorded([op |-> "setIsRelocated"], Ok)

Two_setByteOrder ==
  /\ pc \in {"call1", "call2"}
  /\ \E Value \in ByteOrders :
       /\ ibm' = setByteOrder(ibm, Value)
       /\ Recorded([op |-> "setByteOrder", Value |-> Value], Ok)

Two_setData ==
  /\ pc \in {"call1", "call2"}
  /\ \E Ea \in Addr, Data \in OneByteSpans :
       LET r == setData(ibm, Ea, Data)
       IN  /\ ibm' = r.self
           /\ Recorded([op |-> "setData", Ea |-> Ea, Data |-> Data],
                       [outcome |-> r.outcome])

Two_setDataValue ==
  /\ pc \in {"call1", "call2"}
  /\ \E Ea \in Addr :
       LET r == setDataValue(ibm, Ea, MaxLen, 0)
       IN  /\ ibm' = r.self
           /\ Recorded([op |-> "setDataValue", Ea |-> Ea, Bytes |-> MaxLen, Value |-> 0],
                       [outcome |-> r.outcome])

Two_getData ==
  /\ pc \in {"call1", "call2"}
  /\ \E X \in Addr :
       LET r == getData(ibm, X, 1)
       IN  /\ ibm' = ibm
           /\ Recorded([op |-> "getData", X |-> X, Bytes |-> 1],
                       [outcome |-> r.outcome, ret |-> r.ret])

NextTwo ==
  \/ Two_fromProtobuf
  \/ Two_setFileName
  \/ Two_setBaseAddress
  \/ Two_setEntryPointAddress
  \/ Two_setAddrMinMax
  \/ Two_getAddrMinMax
  \/ Two_setRebaseDelta
  \/ Two_setIsRelocated
  \/ Two_setByteOrder
  \/ Two_setData
  \/ Two_setDataValue
  \/ Two_getData

SpecTwo == InitTwo /\ [][NextTwo]_vars

\* the range setAddrMinMax(X) is to leave stored
RangeAfter(X) == IF X[1] <= X[2] THEN X ELSE <<0, 0>>

\* C12: setAddrMinMax((a, b)) returns true and stores exactly (a, b) when
\* a <= b; when a > b it returns false and the stored range becomes (0, 0)
\* whatever it was; getAddrMinMax then returns the stored pair.
C12_SetAddrMinMaxStoresOrResets ==
  [][/\ call'.op = "setAddrMinMax"
        => /\ result'.ret = (call'.X[1] <= call'.X[2])
           /\ ibm'.EaMinMax = RangeAfter(call'.X)
     /\ call'.op = "getAddrMinMax"
        => /\ result'.ret = ibm.EaMinMax
           /\ call.op = "setAddrMinMax" => result'.ret = RangeAfter(call.X)]_vars

\* an image with a range other than (0, 0) was given an invalid pair, and
\* getAddrMinMax then returned (0, 0)
C12_Witness ==
  /\ Len(hist) = 2
  /\ <<AddrOf(Message.addr_min), AddrOf(Message.addr_max)>> # <<0, 0>>
  /\ AddrOf(Message.addr_min) <= AddrOf(Message.addr_max)
  /\ hist[1].call.op = "setAddrMinMax"
  /\ hist[1].call.X[1] > hist[1].call.X[2]
  /\ hist[1].result.ret = FALSE
  /\ hist[2].call.op = "getAddrMinMax"
  /\ hist[2].result.ret = <<0, 0>>

Setters ==
  {"setFileName", "setBaseAddress", "setEntryPointAddress", "setAddrMinMax",
   "setRebaseDelta", "setIsRelocated", "setByteOrder"}

\* C13: each attribute setter changes its own attribute and nothing else,
\* byte store included; setData and getData change no attribute; a relocated
\* flag that is set stays set under every setter and every write.
C13_SettersChangeOnlyTheirAttribute ==
  [][/\ call'.op = "setFileName"
        => ibm' = [ibm EXCEPT !.FileName = call'.X]
     /\ call'.op = "setBaseAddress"
        => ibm' = [ibm EXCEPT !.BaseAddress = call'.X]
     /\ call'.op = "setEntryPointAddress"
        => ibm' = [ibm EXCEPT !.EntryPointAddress = call'.X]
     /\ call'.op = "setAddrMinMax"
        => ibm' = [ibm EXCEPT !.EaMinMax = ibm'.EaMinMax]
     /\ call'.op = "setRebaseDelta"
        => ibm' = [ibm EXCEPT !.RebaseDelta = call'.X]
     /\ call'.op = "setIsRelocated"
        => ibm' = [ibm EXCEPT !.IsRelocated = TRUE]
     /\ call'.op = "setByteOrder"
        => ibm' = [ibm EXCEPT !.ByteOrder = call'.Value]
     /\ call'.op \in {"setData", "setDataValue", "getData"}
        => ibm' = [ibm EXCEPT !.ByteMap = ibm'.ByteMap]
     /\ call'.op = "getData" => ibm' = ibm
     /\ (ibm.IsRelocated /\ call'.op \in Setters \cup {"setData", "setDataValue"})
        => ibm'.IsRelocated]_vars

\* setIsRelocated set a flag that was clear, then a bulk fill changed the
\* byte store and left the flag and every other attribute as they were
C13_Witness ==
  /\ Len(hist) = 2
  /\ ~Message.is_relocated
  /\ hist[1].call.op = "setIsRelocated"
  /\ hist[2].call.op = "setDataValue"
  /\ ibm.ByteMap # ByteMap_fromProtobuf(Message.byte_map)
  /\ ibm.IsRelocated
  /\ ibm = [ImageByteMap_fromProtobuf(ibm, Message)
              EXCEPT !.IsRelocated = TRUE, !.ByteMap = ibm.ByteMap]

----------------------------------------------------------------------------
(* DataObject: constructed, encoded, and the message decoded into a newly
   constructed DataObject *)

Sizes == 0 .. (AddrMod - 1)

DataObject_new(u, A, S) == [uuid |-> u, Address |-> A, Size |-> S]

getAddress(self) == self.Address
getSize(self) == self.Size

DataObject_toProtobuf(self) ==
  [uuid |-> nodeUUIDToBytes(self.uuid),
   address |-> U64(self.Address),
   size |-> self.Size]

\* fromProtobuf that leaves the UUID the object was constructed with
DataObject_fromProtobuf_KeepUUID(self, M) ==
  [self EXCEPT !.Address = AddrOf(M.address), !.Size = M.size]

DataObject_fromProtobuf(self, M) ==
  [self EXCEPT
     !.uuid = uuidFromBytes(M.uuid),
     !.Address = AddrOf(M.address),
     !.Size = M.size]

InitData ==
  /\ \E u \in UUIDs, A \in Addr, S \in Sizes : dobj = DataObject_new(u, A, S)
  /\ ibm = NoMessage
  /\ call = NoCall
  /\ result = NoResult
  /\ pc = "built"
  /\ hist = <<>>
  /\ Message = NoMessage
  /\ decoded = NoMessage
  /\ doMessage = NoMessage
  /\ doDecoded = NoMessage

Data_toProtobuf ==
  /\ pc = "built"
  /\ doMessage' = DataObject_toProtobuf(dobj)
  /\ pc' = "encoded"
  /\ UNCHANGED <<ibm, call, result, hist, Message, decoded, dobj, doDecoded>>

Data_fromProtobuf ==
  /\ pc = "encoded"
  /\ \E u \in UUIDs :
       /\ call' = [op |-> "fromProtobuf", target |-> DataObject_new(u, 0, 0)]
       /\ doDecoded' = DataObject_fromProtobuf(DataObject_new(u, 0, 0), doMessage)
  /\ pc' = "decoded"
  /\ UNCHANGED <<ibm, result, hist, Message, decoded, dobj, doMessage>>

NextData ==
  \/ Data_toProtobuf
  \/ Data_fromProtobuf

SpecData == InitData /\ [][NextData]_vars

\* C7: the DataObject decoded from the message of x.toProtobuf has the UUID
\* of x, carried by the message and not the one the receiving object was
\* constructed with, and the address and the size of x.
C7_DataObjectRoundTrip ==
  pc = "decoded"
  => /\ doDecoded.uuid = dobj.uuid
     /\ uuidFromBytes(doMessage.uuid) = dobj.uuid
     /\ getAddress(doDecoded) = getAddress(dobj)
     /\ getSize(doDecoded) = getSize(dobj)

\* a DataObject with a non-zero address and size decoded into an object
\* that was constructed with another UUID
C7_Witness ==
  /\ pc = "decoded"
  /\ call.op = "fromProtobuf"
  /\ call.target.uuid # dobj.uuid
  /\ dobj.Address # 0
  /\ dobj.Size # 0
  /\ doDecoded = dobj

====
